---- MODULE Spec2Model ----
(***************************************************************************)
(* A model of multigit (src/src/lib.rs): the tree scanner                  *)
(* (find_repositories), the working-set resolver (all_repositories) and    *)
(* the fan-out executor (process_repositories and its callers).            *)
(*                                                                         *)
(* Paths are sequences of path components.  A component is an index into   *)
(* NameTable; the indices are ordered the way Rust orders the components   *)
(* (RootDir before every Normal component, Normal components by bytes), so *)
(* comparing indices is comparing components.                              *)
(***************************************************************************)
EXTENDS Naturals, Sequences, FiniteSets, TLC

\* ------------------------------------------------------------------ bounds

\* The most entries (directories and files) a filesystem tree holds.
MaxFsEntries == 5

\* ------------------------------------------------------------- path model

NameTable == << "/", ".git", ".h", "a", "b" >>

Name(s) == CHOOSE i \in DOMAIN NameTable : NameTable[i] = s

RootDir == Name("/")
DotGit == Name(".git")
DotH == Name(".h")
NameA == Name("a")
NameB == Name("b")

\* The names a directory entry can have.
EntryNames == {DotGit, DotH, NameA, NameB}

\* f.to_string_lossy().starts_with('.')
StartsWithDot(n) == n \in {DotGit, DotH}

Root == << RootDir >>

\* Path::join with a single component.
Join(p, n) == Append(p, n)

\* Path::file_name of a path that ends in a normal component.
FileName(p) == p[Len(p)]

\* What the operating system makes of p/.. for a directory p.
Parent(p) == SubSeq(p, 1, Len(p) - 1)

\* p is q or lies below q.
IsUnder(p, q) == Len(q) <= Len(p) /\ SubSeq(p, 1, Len(q)) = q

StrictlyUnder(p, q) == IsUnder(p, q) /\ p # q

\* Ord for Path: the components compared lexicographically, a proper prefix
\* first.
PathLess(p, q) ==
    \E i \in 1..Len(q) :
        /\ i <= Len(p) + 1
        /\ \A j \in 1..(i - 1) : p[j] = q[j]
        /\ (i = Len(p) + 1 \/ p[i] < q[i])

PathLeq(p, q) == p = q \/ PathLess(p, q)

IsSorted(s) == \A i \in 1..(Len(s) - 1) : PathLeq(s[i], s[i + 1])

NoDuplicates(s) == \A i, j \in 1..Len(s) : i # j => s[i] # s[j]

\* ------------------------------------------------------- filesystem model

PathA == << RootDir, NameA >>
PathB == << RootDir, NameB >>
PathAA == Join(PathA, NameA)
PathAB == Join(PathA, NameB)
PathAH == Join(PathA, DotH)
PathAHB == Join(PathAH, NameB)

\* The paths a tree of the model can hold; every other path is absent.
FsPaths ==
    { PathA, Join(PathA, DotGit),
      PathAA, Join(PathAA, DotGit),
      PathAB, Join(PathAB, DotGit),
      PathAH, PathAHB, Join(PathAHB, DotGit),
      PathB, Join(PathB, DotGit) }

\* The paths that may be regular files.
FilePaths == { PathB, PathAB, Join(PathAA, DotGit) }

Kinds == {"absent", "dir", "file"}

VARIABLES
    fs,               \* the directory tree: FsPaths -> Kinds
    git2,             \* what git2 finds in each directory: RepoPaths -> Conditions
    repositories,     \* Config::repositories: name -> path of the entry
    directories,      \* Config::directories: name -> path of the entry
    directory,        \* Multigit::directory, the scope override
    pc,               \* position of the command: idle, running, done, panicked
    op,               \* the command that runs
    filter,           \* its filter argument
    commands,         \* exec's command list
    repos,            \* what all_repositories returned
    ws,               \* the checkouts handed to process_repositories
    remaining,        \* process_repositories: the checkouts the loop has yet to take
    visited,          \* the checkouts the operation was invoked on, in order
    outcomes,         \* what the operation returned for each of them
    errors,           \* process_repositories: the paths of the errors vector
    first_repository, \* git_command: the flag of the same name
    dividers,         \* the dividers printed
    result,           \* what the command returned
    inspected,        \* the checkouts all_repositories asked the State Inspector about
    cause,            \* what made the command panic
    detailed,         \* list's flag of the same name
    args,             \* the paths given to register or unregister
    scanPc,           \* position of a find_repositories call made on its own
    scanRoot,         \* its argument
    scanOut,          \* its outcome
    statePc,          \* position of a RepositoryEntry::state call made on its own
    stateOut          \* what it returned

scanVars == << scanPc, scanRoot, scanOut >>

stateVars == << statePc, stateOut >>

envVars == << fs, git2 >>

adminVars == << detailed, args >>

configVars == << repositories, directories, directory >>

runVars ==
    << pc, op, filter, commands, repos, ws, remaining, visited, outcomes,
       errors, first_repository, dividers, result, inspected, cause >>

\* std::env::current_dir
Cwd == PathA

\* Absolutize::absolutize: a relative path is taken from the current
\* directory, an absolute one is left as it is.
Absolutize(p) == IF p = << >> THEN Cwd ELSE IF p[1] = RootDir THEN p ELSE Cwd \o p

\* std::fs metadata of a path, a relative one resolved from the current
\* directory; the root directory always exists.
Kind(p) ==
    LET q == Absolutize(p)
    IN  IF q = Root THEN "dir" ELSE IF q \in FsPaths THEN fs[q] ELSE "absent"

\* Path::exists
Exists(p) == Kind(p) # "absent"

IsDir(p) == Kind(p) = "dir"

\* A tree the operating system can hold: an entry lives in a directory, and
\* only the paths of FilePaths are regular files.
WellFormed(f) ==
    \A p \in FsPaths :
        /\ f[p] = "file" => p \in FilePaths
        /\ f[p] # "absent" /\ Parent(p) # Root => f[Parent(p)] = "dir"

Entries(f) == {p \in FsPaths : f[p] # "absent"}

TreeOf(dirs, files) ==
    [p \in FsPaths |-> IF p \in files THEN "file" ELSE IF p \in dirs THEN "dir" ELSE "absent"]

FsFamily ==
    { f \in { TreeOf(present \ files, files) :
                  present \in SUBSET FsPaths, files \in SUBSET FilePaths } :
        WellFormed(f) /\ Cardinality(Entries(f)) <= MaxFsEntries }

\* ------------------------------------------------------------ tree scanner

\* is_git_repository: path.join(".git").exists()
is_git_repository(path) == Exists(Join(path, DotGit))

\* The entries read_dir yields for a directory.
ReadDir(d) == {e \in {Join(d, n) : n \in EntryNames} : Exists(e)}

\* Filtering without the arm that prunes hidden directories.
FilteringKeepsHidden(e) ==
    IF ~IsDir(e) THEN "Ignore"
    ELSE IF Exists(Join(Parent(e), DotGit)) /\ FileName(e) # DotGit THEN "IgnoreDir"
    ELSE "Continue"

\* The closure given to WalkDir::filter.
Filtering(e) ==
    IF ~IsDir(e) THEN "Ignore"
    ELSE IF StartsWithDot(FileName(e)) THEN "IgnoreDir"
    ELSE IF Exists(Join(Parent(e), DotGit)) /\ FileName(e) # DotGit THEN "IgnoreDir"
    ELSE "Continue"

\* async_walkdir's walk below a directory: an entry is yielded when the
\* filter says Continue, and a directory entry is entered unless the filter
\* says IgnoreDir.  The directory the walk starts at is not itself an entry.
RECURSIVE Walk(_)
Walk(d) ==
    UNION { (IF Filtering(e) = "Continue" THEN {e} ELSE {})
              \cup (IF IsDir(e) /\ Filtering(e) # "IgnoreDir" THEN Walk(e) ELSE {}) :
            e \in ReadDir(d) }

\* The least path of a non-empty set.
MinPath(S) == CHOOSE p \in S : \A q \in S : PathLeq(p, q)

\* paths.sort() of the paths collected from the walk.
RECURSIVE SortPaths(_)
SortPaths(S) ==
    IF S = {} THEN << >> ELSE << MinPath(S) >> \o SortPaths(S \ {MinPath(S)})

Panicked == [panic |-> TRUE, paths |-> << >>]

Returned(paths) == [panic |-> FALSE, paths |-> paths]

\* find_repositories: read_dir of a root that is no directory makes the
\* stream yield an Err, which entry.unwrap() turns into a panic.
find_repositories(path) ==
    IF ~IsDir(path) THEN Panicked ELSE Returned(SortPaths(Walk(path)))

\* --------------------------------------------------------- state inspector

None == [some |-> FALSE, value |-> << >>]

Some(v) == [some |-> TRUE, value |-> v]

\* The directories git2 may be asked to open.
RepoPaths == { PathA, PathAA, PathAB, PathB }

\* The git2::Status values the match of RepositoryEntry::state names.
DirtyFlags ==
    { "INDEX_NEW", "INDEX_MODIFIED", "INDEX_DELETED", "INDEX_RENAMED",
      "INDEX_TYPECHANGE", "WT_NEW", "WT_MODIFIED", "WT_DELETED",
      "WT_TYPECHANGE", "WT_RENAMED", "CONFLICTED" }

\* What git2 finds in a directory: whether the repository opens, the flag
\* set of each of its status entries, whether the branch has an upstream.
Corrupt == [open |-> FALSE, statuses |-> {}, upstream |-> FALSE]
Clean == [open |-> TRUE, statuses |-> {}, upstream |-> FALSE]
CleanTracking == [open |-> TRUE, statuses |-> {}, upstream |-> TRUE]
DirtyWorktree == [open |-> TRUE, statuses |-> {{"WT_MODIFIED"}}, upstream |-> FALSE]

Conditions == { Corrupt, Clean, CleanTracking, DirtyWorktree }

\* git2::Repository::open: a directory without a metadata entry does not
\* open, one with a metadata entry opens unless it is corrupt.
Open(path) == is_git_repository(path) /\ path \in RepoPaths /\ git2[path].open

\* RepositoryEntry::state
state(path) ==
    IF ~Open(path) THEN [ok |-> FALSE, entries |-> {}]
    ELSE [ok |-> TRUE,
          entries |-> IF \E status \in git2[path].statuses :
                             \E flag \in DirtyFlags : status = {flag}
                      THEN {"Dirty"} ELSE {}]

\* RepositoryEntry::has_tracking_branch
has_tracking_branch(path) ==
    IF ~Open(path) THEN [ok |-> FALSE, value |-> FALSE]
    ELSE [ok |-> TRUE, value |-> git2[path].upstream]

\* ----------------------------------------------------- working-set resolver

\* The orders a HashMap with the keys S can be iterated in.
Orders(S) ==
    { o \in [1..Cardinality(S) -> S] : \A i, j \in 1..Cardinality(S) : i # j => o[i] # o[j] }

RECURSIVE Flatten(_)
Flatten(ss) == IF ss = << >> THEN << >> ELSE Head(ss) \o Flatten(Tail(ss))

\* A sort that leaves every element where it finds it.
InsertAtEnd(s, x) == Append(s, x)

\* Where a stable sort puts x in a sorted sequence.
Insert(s, x) ==
    LET k == Cardinality({i \in 1..Len(s) : PathLeq(s[i], x)})
    IN  SubSeq(s, 1, k) \o << x >> \o SubSeq(s, k + 1, Len(s))

\* all_repositories without its sort.
SortByPathSkipped(s) == s

\* repositories.sort_by(|a, b| a.path.cmp(&b.path))
RECURSIVE SortByPath(_)
SortByPath(s) ==
    IF s = << >> THEN << >>
    ELSE Insert(SortByPath(SubSeq(s, 1, Len(s) - 1)), s[Len(s)])

\* A closure that looks at the first predicate of the filter only.
RetainsFirstOnly(path, fl) ==
    IF fl = << >> THEN "drop"
    ELSE IF Head(fl) = "Dirty"
         THEN IF ~state(path).ok THEN "panic"
              ELSE IF "Dirty" \in state(path).entries THEN "keep" ELSE "drop"
         ELSE IF ~has_tracking_branch(path).ok THEN "panic"
              ELSE IF has_tracking_branch(path).value THEN "keep" ELSE "drop"

\* The closure given to retain: keep, drop, or panic on an unwrap.
RECURSIVE Retains(_, _)
Retains(path, fl) ==
    IF fl = << >> THEN "drop"
    ELSE IF Head(fl) = "Dirty"
         THEN IF ~state(path).ok THEN "panic"
              ELSE IF "Dirty" \in state(path).entries THEN "keep"
              ELSE Retains(path, Tail(fl))
         ELSE IF ~has_tracking_branch(path).ok THEN "panic"
              ELSE IF has_tracking_branch(path).value THEN "keep"
              ELSE Retains(path, Tail(fl))

\* A filtering step without the test of filter.is_empty(): the closure
\* finds no predicate in an empty filter and drops every checkout.
RetainWithoutEmptyCheck(paths, flt) ==
    IF ~flt.some THEN Returned(paths)
    ELSE IF \E i \in 1..Len(paths) : Retains(paths[i], flt.value) = "panic" THEN Panicked
    ELSE LET Kept(p) == Retains(p, flt.value) = "keep"
         IN  Returned(SelectSeq(paths, Kept))

\* The filtering step of all_repositories.
Retain(paths, flt) ==
    IF ~flt.some \/ flt.value = << >> THEN Returned(paths)
    ELSE IF \E i \in 1..Len(paths) : Retains(paths[i], flt.value) = "panic" THEN Panicked
    ELSE LET Kept(p) == Retains(p, flt.value) = "keep"
         IN  Returned(SelectSeq(paths, Kept))

\* The candidates of registry mode: the registered checkouts, then the scan
\* of every registered container, in the maps' iteration orders ro and do.
Candidates(ro, do) ==
    LET registered == [i \in 1..Len(ro) |-> repositories[ro[i]]]
        scans == [i \in 1..Len(do) |-> find_repositories(directories[do[i]])]
    IN  IF \E i \in 1..Len(do) : scans[i].panic THEN Panicked
        ELSE Returned(registered \o Flatten([i \in 1..Len(do) |-> scans[i].paths]))

\* all_repositories without the branch for the scope override.
all_repositories_registry_only(flt, ro, do) ==
    LET candidates == Candidates(ro, do)
    IN  IF candidates.panic THEN Panicked
        ELSE LET retained == Retain(candidates.paths, flt)
             IN  IF retained.panic THEN Panicked
                 ELSE Returned(SortByPath(retained.paths))

\* Multigit::all_repositories
all_repositories(flt, ro, do) ==
    IF directory.some
    THEN find_repositories(directory.value)
    ELSE LET candidates == Candidates(ro, do)
         IN  IF candidates.panic THEN Panicked
             ELSE LET retained == Retain(candidates.paths, flt)
                  IN  IF retained.panic THEN Panicked
                      ELSE Returned(SortByPath(retained.paths))

\* The checkouts the retain closure is called on: retain stops at the first
\* checkout whose closure panics.
Reached(paths, fl) ==
    LET stops == {i \in 1..Len(paths) : Retains(paths[i], fl) = "panic"}
        last == IF stops = {} THEN Len(paths)
                ELSE CHOOSE i \in stops : \A j \in stops : i <= j
    IN  {paths[i] : i \in 1..last}

\* The checkouts all_repositories queries the State Inspector about: none
\* with a scope override, none without a filter or with an empty one.
Asked(flt, ro, do) ==
    IF directory.some \/ ~flt.some \/ flt.value = << >> THEN {}
    ELSE LET candidates == Candidates(ro, do)
         IN  IF candidates.panic THEN {} ELSE Reached(candidates.paths, flt.value)

\* Where all_repositories panics when it does: in entry.unwrap() of a scan,
\* or in an unwrap of the retain closure.
Fault(flt, ro, do) ==
    IF directory.some \/ Candidates(ro, do).panic THEN "scan" ELSE "filter"

\* ---------------------------------------------------------- fan-out executor

NoResult == [kind |-> "none", count |-> 0]

\* The command panics before or while it resolves its working set.
Panics(o, flt, cmds, why) ==
    /\ pc' = "panicked"
    /\ cause' = why
    /\ op' = o
    /\ filter' = flt
    /\ commands' = cmds
    /\ UNCHANGED << repos, ws, remaining, visited, outcomes, errors,
                    first_repository, dividers, result >>

\* The command calls process_repositories(repositories, ...), all_repositories
\* having returned all.
Enters(o, flt, cmds, all, repositories_) ==
    /\ pc' = "running"
    /\ op' = o
    /\ filter' = flt
    /\ commands' = cmds
    /\ repos' = all
    /\ ws' = repositories_
    /\ remaining' = repositories_
    /\ UNCHANGED << visited, outcomes, errors, first_repository, dividers, result, cause >>

\* A loop that returns at the first error.
LoopRestStopsOnError(rest, outcome) == IF outcome = "Err" THEN << >> ELSE Tail(rest)

\* process_repositories: what the loop has left to take after one checkout.
LoopRest(rest, outcome) == Tail(rest)

\* process_repositories: the errors vector after one checkout.
Collect(errs, path, outcome) == IF outcome = "Err" THEN Append(errs, path) ELSE errs

\* process_repositories: one turn of the loop, the closure having returned
\* outcome for the checkout at the head of the slice.
LoopTurn(outcome) ==
    /\ visited' = Append(visited, Head(remaining))
    /\ outcomes' = Append(outcomes, outcome)
    /\ errors' = Collect(errors, Head(remaining), outcome)
    /\ remaining' = LoopRest(remaining, outcome)

\* A return value that reports one error however many there were.
ReturnsOneError(errs) ==
    IF errs = << >> THEN [kind |-> "Ok", count |-> 0]
    ELSE [kind |-> "Err", count |-> Len(<< Head(errs) >>)]

\* process_repositories: the value returned after the loop.
Returns(errs) ==
    IF errs = << >> THEN [kind |-> "Ok", count |-> 0]
    ELSE [kind |-> "Err", count |-> Len(errs)]

\* What a child process spawned in a directory can come to: it is not
\* spawned when the directory is missing.
ChildStatuses(path) ==
    IF IsDir(path) THEN {"success", "nonzero", "spawn_error"} ELSE {"spawn_error"}

\* command.status()? followed by the check of status.success()
ChildOutcome(status) == IF status = "success" THEN "Ok" ELSE "Err"

Filters ==
    { None, Some(<< >>), Some(<< "Dirty" >>), Some(<< "Tracking" >>),
      Some(<< "Dirty", "Tracking" >>) }

CommandLists == { << >>, << "make" >> }

GitCommands == { "add", "commit", "push", "fetch" }

\* Multigit::status up to its call of process_repositories
status ==
    /\ pc = "idle"
    /\ \E flt \in Filters, ro \in Orders(DOMAIN repositories),
          do \in Orders(DOMAIN directories) :
          LET all == all_repositories(flt, ro, do)
          IN  /\ inspected' = Asked(flt, ro, do)
              /\ IF all.panic THEN Panics("status", flt, << >>, Fault(flt, ro, do))
                 ELSE Enters("status", flt, << >>, all.paths, all.paths)
    /\ UNCHANGED << envVars, configVars, scanVars, stateVars, adminVars >>

\* The closure of Multigit::status: the repository is opened and its
\* statuses are read, each with ?.
status_closure ==
    /\ pc = "running" /\ op = "status"
    /\ remaining # << >>
    /\ LoopTurn(IF Open(Head(remaining)) THEN "Ok" ELSE "Err")
    /\ UNCHANGED << pc, op, filter, commands, repos, ws, first_repository,
                    dividers, result, inspected, cause >>
    /\ UNCHANGED << envVars, configVars, scanVars, stateVars, adminVars >>

\* Multigit::exec up to its call of process_repositories
exec ==
    /\ pc = "idle"
    /\ \E flt \in Filters, cmds \in CommandLists, ro \in Orders(DOMAIN repositories),
          do \in Orders(DOMAIN directories) :
          LET all == all_repositories(flt, ro, do)
          IN  /\ inspected' = Asked(flt, ro, do)
              /\ IF all.panic THEN Panics("exec", flt, cmds, Fault(flt, ro, do))
                 ELSE Enters("exec", flt, cmds, all.paths, all.paths)
    /\ UNCHANGED << envVars, configVars, scanVars, stateVars, adminVars >>

\* The closure of Multigit::exec: &commands[0] panics on an empty list.
exec_closure ==
    /\ pc = "running" /\ op = "exec"
    /\ remaining # << >>
    /\ IF commands = << >>
       THEN /\ pc' = "panicked"
            /\ cause' = "commands"
            /\ UNCHANGED << remaining, visited, outcomes, errors >>
       ELSE /\ \E child \in ChildStatuses(Head(remaining)) : LoopTurn(ChildOutcome(child))
            /\ UNCHANGED << pc, cause >>
    /\ UNCHANGED << op, filter, commands, repos, ws, first_repository, dividers, result,
                    inspected >>
    /\ UNCHANGED << envVars, configVars, scanVars, stateVars, adminVars >>

\* Multigit::git_command up to its call of process_repositories:
\* termsize::get().unwrap() panics when there is no terminal.
git_command(name, flt, all, repositories_, tty) ==
    IF ~tty THEN Panics(name, flt, << >>, "termsize")
    ELSE Enters(name, flt, << >>, all, repositories_)

\* Multigit::add, commit, push and fetch
git_passthrough ==
    /\ pc = "idle"
    /\ \E name \in GitCommands, flt \in Filters, tty \in BOOLEAN,
          ro \in Orders(DOMAIN repositories), do \in Orders(DOMAIN directories) :
          LET all == all_repositories(flt, ro, do)
          IN  /\ inspected' = Asked(flt, ro, do)
              /\ IF all.panic THEN Panics(name, flt, << >>, Fault(flt, ro, do))
                 ELSE git_command(name, flt, all.paths, all.paths, tty)
    /\ UNCHANGED << envVars, configVars, scanVars, stateVars, adminVars >>

\* A pull that hands every checkout of the working set to git_command.
TrackingOnlySkipped(paths) == Returned(paths)

\* The filter of Multigit::pull: has_tracking_branch().unwrap()
TrackingOnly(paths) ==
    IF \E i \in 1..Len(paths) : ~has_tracking_branch(paths[i]).ok THEN Panicked
    ELSE LET Tracks(p) == has_tracking_branch(p).value
         IN  Returned(SelectSeq(paths, Tracks))

\* Multigit::pull
pull ==
    /\ pc = "idle"
    /\ \E flt \in Filters, tty \in BOOLEAN,
          ro \in Orders(DOMAIN repositories), do \in Orders(DOMAIN directories) :
          LET all == all_repositories(flt, ro, do)
          IN  /\ inspected' = Asked(flt, ro, do)
              /\ IF all.panic THEN Panics("pull", flt, << >>, Fault(flt, ro, do))
                 ELSE IF TrackingOnly(all.paths).panic
                      THEN Panics("pull", flt, << >>, "tracking")
                 ELSE git_command("pull", flt, all.paths, TrackingOnly(all.paths).paths, tty)
    /\ UNCHANGED << envVars, configVars, scanVars, stateVars, adminVars >>

\* A closure that prints the divider before the first checkout as well.
DividersPrintedAlways(first, printed) == printed + 1

\* git_command: the dividers printed once the closure has passed its
\* if !first_repository.
DividersPrinted(first, printed) == IF ~first THEN printed + 1 ELSE printed

\* The closure of Multigit::git_command: the divider before every checkout
\* but the first, then the git child process.
git_command_closure ==
    /\ pc = "running" /\ op \in GitCommands \cup {"pull"}
    /\ remaining # << >>
    /\ dividers' = DividersPrinted(first_repository, dividers)
    /\ first_repository' = FALSE
    /\ \E child \in ChildStatuses(Head(remaining)) : LoopTurn(ChildOutcome(child))
    /\ UNCHANGED << pc, op, filter, commands, repos, ws, result, inspected, cause >>
    /\ UNCHANGED << envVars, configVars, scanVars, stateVars, adminVars >>

\* process_repositories returns, and the command with it.
process_repositories_returns ==
    /\ pc = "running"
    /\ remaining = << >>
    /\ result' = Returns(errors)
    /\ pc' = "done"
    /\ UNCHANGED << op, filter, commands, repos, ws, remaining, visited, outcomes,
                    errors, first_repository, dividers, inspected, cause >>
    /\ UNCHANGED << envVars, configVars, scanVars, stateVars, adminVars >>

\* RepositoryEntry::current_branch: the repository is opened with ?; the
\* repositories of the model have a HEAD.
current_branch(path) == [ok |-> Open(path)]

\* RepositoryEntry::has_stashes: the repository is opened with ?.
has_stashes(path) == [ok |-> Open(path)]

\* The closure that makes a Row of Multigit::list panics: state(),
\* current_branch() and has_stashes() are unwrapped, behind_remote() and
\* ahead_remote() go through ok().flatten().
RowPanics(path) ==
    \/ ~state(path).ok
    \/ ~current_branch(path).ok
    \/ ~has_stashes(path).ok

\* Multigit::list up to the rows, which are made when they are consumed.
list ==
    /\ pc = "idle"
    /\ \E flt \in Filters, detail \in BOOLEAN, ro \in Orders(DOMAIN repositories),
          do \in Orders(DOMAIN directories) :
          LET all == all_repositories(flt, ro, do)
          IN  /\ inspected' = Asked(flt, ro, do)
              /\ detailed' = detail
              /\ IF all.panic THEN Panics("list", flt, << >>, Fault(flt, ro, do))
                 ELSE /\ pc' = "listing"
                      /\ op' = "list"
                      /\ filter' = flt
                      /\ repos' = all.paths
                      /\ ws' = all.paths
                      /\ remaining' = all.paths
                      /\ UNCHANGED << commands, visited, outcomes, errors,
                                      first_repository, dividers, result, cause >>
    /\ UNCHANGED << envVars, configVars, scanVars, stateVars, args >>

\* Multigit::list without detailed: one turn of for row in rows, the row
\* made and its path printed.
list_row ==
    /\ pc = "listing" /\ ~detailed
    /\ remaining # << >>
    /\ IF RowPanics(Head(remaining))
       THEN /\ pc' = "panicked"
            /\ cause' = "row"
            /\ UNCHANGED << remaining, visited >>
       ELSE /\ visited' = Append(visited, Head(remaining))
            /\ remaining' = Tail(remaining)
            /\ UNCHANGED << pc, cause >>
    /\ UNCHANGED << op, filter, commands, repos, ws, outcomes, errors,
                    first_repository, dividers, result, inspected >>
    /\ UNCHANGED << envVars, configVars, scanVars, stateVars, adminVars >>

\* Multigit::list with detailed: Table::new makes every row before the
\* table is printed.
list_table ==
    /\ pc = "listing" /\ detailed
    /\ IF \E i \in 1..Len(remaining) : RowPanics(remaining[i])
       THEN /\ pc' = "panicked"
            /\ cause' = "row"
            /\ UNCHANGED << remaining, visited, result >>
       ELSE /\ visited' = ws
            /\ remaining' = << >>
            /\ pc' = "done"
            /\ result' = [kind |-> "Ok", count |-> 0]
            /\ UNCHANGED cause
    /\ UNCHANGED << op, filter, commands, repos, ws, outcomes, errors,
                    first_repository, dividers, inspected >>
    /\ UNCHANGED << envVars, configVars, scanVars, stateVars, adminVars >>

\* Multigit::list without detailed returns Ok(()) after the last row.
list_returns ==
    /\ pc = "listing" /\ ~detailed
    /\ remaining = << >>
    /\ pc' = "done"
    /\ result' = [kind |-> "Ok", count |-> 0]
    /\ UNCHANGED << op, filter, commands, repos, ws, remaining, visited, outcomes,
                    errors, first_repository, dividers, inspected, cause >>
    /\ UNCHANGED << envVars, configVars, scanVars, stateVars, adminVars >>

\* ------------------------------------------------------------ the program

\* The trees a command is run on.
TreeEmpty == TreeOf({}, {})

\* A container /a with the checkouts /a/a and /a/b, and a checkout /b.
TreeFlat ==
    TreeOf({ PathA, PathAA, Join(PathAA, DotGit), PathAB, Join(PathAB, DotGit),
             PathB, Join(PathB, DotGit) }, {})

\* A checkout /a with a working directory /a/a and a checkout /a/b in it.
TreeNested ==
    TreeOf({ PathA, Join(PathA, DotGit), PathAA, PathAB, Join(PathAB, DotGit) }, {})

MainTrees == { TreeEmpty, TreeFlat, TreeNested }

\* The most entries the registry holds.
MaxRegistered == 2

\* The paths that are registered, and the directories given as scope override.
RegisteredPaths == { PathA, PathAA, PathB }

ScopePaths == { PathA, PathB }

\* Config::register keys an entry by its absolute path; the paths of the
\* model are absolute.
EntriesOf(paths) == [name \in paths |-> name]

\* What git2 finds: a directory that is no checkout has nothing to find.
Inspections(f) ==
    { g \in [RepoPaths -> Conditions] :
        \A p \in RepoPaths : f[Join(p, DotGit)] = "absent" => g[p] = Corrupt }

NotCalled == [panic |-> FALSE, paths |-> << >>]

RunIdle ==
    /\ pc = "idle"
    /\ op = "none"
    /\ filter = None
    /\ commands = << >>
    /\ repos = << >>
    /\ ws = << >>
    /\ remaining = << >>
    /\ visited = << >>
    /\ outcomes = << >>
    /\ errors = << >>
    /\ first_repository = TRUE
    /\ dividers = 0
    /\ result = NoResult
    /\ inspected = {}
    /\ cause = "none"
    /\ detailed = FALSE
    /\ args = << >>

StateIdle ==
    /\ statePc = "idle"
    /\ stateOut = [ok |-> FALSE, entries |-> {}]

ScanIdle ==
    /\ scanPc = "idle"
    /\ scanRoot = Root
    /\ scanOut = NotCalled

\* The state after Multigit::new(config, directory).
Init ==
    /\ fs \in MainTrees
    /\ git2 \in Inspections(fs)
    /\ \E rs \in SUBSET RegisteredPaths, ds \in SUBSET RegisteredPaths :
          /\ Cardinality(rs) + Cardinality(ds) <= MaxRegistered
          /\ repositories = EntriesOf(rs)
          /\ directories = EntriesOf(ds)
    /\ directory \in {None} \cup {Some(p) : p \in ScopePaths}
    /\ RunIdle
    /\ StateIdle
    /\ ScanIdle

Next ==
    \/ status
    \/ status_closure
    \/ exec
    \/ exec_closure
    \/ git_passthrough
    \/ pull
    \/ git_command_closure
    \/ process_repositories_returns
    \/ list
    \/ list_row
    \/ list_table
    \/ list_returns

vars == << envVars, configVars, runVars, adminVars, scanVars, stateVars >>

Spec == Init /\ [][Next]_vars

\* -------------------------------------------- find_repositories on its own

ScanRoots == {Root} \cup {p \in FsPaths : FileName(p) # DotGit}

InitScan ==
    /\ fs \in FsFamily
    /\ git2 = [p \in RepoPaths |-> Corrupt]
    /\ repositories = EntriesOf({})
    /\ directories = EntriesOf({})
    /\ directory = None
    /\ RunIdle
    /\ StateIdle
    /\ scanRoot \in ScanRoots
    /\ scanPc = "start"
    /\ scanOut = NotCalled

\* A call of find_repositories(scanRoot) that returns.
ScanReturns ==
    /\ scanPc = "start"
    /\ ~find_repositories(scanRoot).panic
    /\ scanOut' = find_repositories(scanRoot)
    /\ scanPc' = "returned"
    /\ UNCHANGED << envVars, configVars, runVars, adminVars, stateVars, scanRoot >>

\* A call of find_repositories(scanRoot) that panics.
ScanPanics ==
    /\ scanPc = "start"
    /\ find_repositories(scanRoot).panic
    /\ scanOut' = find_repositories(scanRoot)
    /\ scanPc' = "panicked"
    /\ UNCHANGED << envVars, configVars, runVars, adminVars, stateVars, scanRoot >>

NextScan == ScanReturns \/ ScanPanics

SpecScan == InitScan /\ [][NextScan]_vars

\* --------------------------------------- RepositoryEntry::state on its own

\* The most status entries git2 reports for the checkout.
MaxStatuses == 2

IndexFlags ==
    { "INDEX_NEW", "INDEX_MODIFIED", "INDEX_DELETED", "INDEX_RENAMED", "INDEX_TYPECHANGE" }

WorktreeFlags ==
    { "WT_NEW", "WT_MODIFIED", "WT_DELETED", "WT_TYPECHANGE", "WT_RENAMED" }

\* The git2::Status values of the entries statuses() yields with
\* include_untracked(true) and include_ignored(false): a change in the
\* index, a change in the working tree, a conflict, or a change in the
\* index with one in the working tree on top of it.  A path deleted from
\* the index can only be new in the working tree, and no other path can.
StatusValues ==
    {{f} : f \in IndexFlags \cup WorktreeFlags \cup {"CONFLICTED"}}
    \cup {{"INDEX_DELETED", "WT_NEW"}}
    \cup { {i, w} : i \in IndexFlags \ {"INDEX_DELETED"}, w \in WorktreeFlags \ {"WT_NEW"} }

\* The sets of at most n status values.
RECURSIVE StatusesUpTo(_)
StatusesUpTo(n) ==
    IF n = 0 THEN {{}}
    ELSE StatusesUpTo(n - 1)
         \cup { S \cup {v} : S \in StatusesUpTo(n - 1), v \in StatusValues }

\* The checkout state() is called on.
StatePath == PathB

\* A checkout /b with the statuses git2 reports for it, or one git2 cannot
\* open.
InitState ==
    /\ fs = TreeOf({ PathB, Join(PathB, DotGit) }, {})
    /\ \E opens \in BOOLEAN, found \in StatusesUpTo(MaxStatuses) :
          /\ ~opens => found = {}
          /\ git2 = [p \in RepoPaths |->
                        IF p = StatePath
                        THEN [open |-> opens, statuses |-> found, upstream |-> FALSE]
                        ELSE Corrupt]
    /\ repositories = EntriesOf({})
    /\ directories = EntriesOf({})
    /\ directory = None
    /\ RunIdle
    /\ ScanIdle
    /\ statePc = "start"
    /\ stateOut = [ok |-> FALSE, entries |-> {}]

\* A call of state() that returns Ok(state).
StateReturns ==
    /\ statePc = "start"
    /\ state(StatePath).ok
    /\ stateOut' = state(StatePath)
    /\ statePc' = "returned"
    /\ UNCHANGED << envVars, configVars, runVars, adminVars, scanVars >>

\* A call of state() that returns the error of git2::Repository::open.
StateFails ==
    /\ statePc = "start"
    /\ ~state(StatePath).ok
    /\ stateOut' = state(StatePath)
    /\ statePc' = "failed"
    /\ UNCHANGED << envVars, configVars, runVars, adminVars, scanVars >>

NextState == StateReturns \/ StateFails

SpecState == InitState /\ [][NextState]_vars

\* ------------------------------------------------- the registry on its own

\* The most paths one register or unregister command is given.
MaxArgs == 2

\* The paths given to register and unregister: two absolute ones and the
\* relative path a, which is /a/a from the current directory.
RelativeA == << NameA >>

RegisterArgs == { PathA, PathB, RelativeA }

PathLists == UNION { [1..n -> RegisterArgs] : n \in 0..MaxArgs }

\* The directories that become checkouts and plain directories again.
Convertible == { PathA, PathAA, PathB }

\* HashMap::insert
Put(map, name, path) ==
    [k \in DOMAIN map \cup {name} |-> IF k = name THEN path ELSE map[k]]

\* HashMap::remove
Remove(map, name) == [k \in DOMAIN map \ {name} |-> map[k]]

\* A Config::register that takes every path for a container.
Config_register_unclassified(config, path) ==
    [config EXCEPT !.directories = Put(@, Absolutize(path), path)]

\* Config::register; the maps of the model are the saved ones.
Config_register(config, path) ==
    IF ~is_git_repository(path)
    THEN [config EXCEPT !.directories = Put(@, Absolutize(path), path)]
    ELSE [config EXCEPT !.repositories = Put(@, Absolutize(path), path)]

\* Config::unregister
Config_unregister(config, path) ==
    [directories |-> Remove(config.directories, Absolutize(path)),
     repositories |-> Remove(config.repositories, Absolutize(path))]

\* for path in paths { self.config.register(path)?; }
RECURSIVE RegisterEach(_, _)
RegisterEach(config, ps) ==
    IF ps = << >> THEN config
    ELSE RegisterEach(Config_register(config, Head(ps)), Tail(ps))

\* for path in paths { self.config.unregister(path)?; }
RECURSIVE UnregisterEach(_, _)
UnregisterEach(config, ps) ==
    IF ps = << >> THEN config
    ELSE UnregisterEach(Config_unregister(config, Head(ps)), Tail(ps))

TheConfig == [repositories |-> repositories, directories |-> directories]

\* Multigit::register with the paths ps; op and args keep the command.
register_paths(ps) ==
    /\ pc = "idle"
    /\ LET saved == IF ps = << >> THEN Config_register(TheConfig, Cwd)
                    ELSE RegisterEach(TheConfig, ps)
       IN  /\ repositories' = saved.repositories
           /\ directories' = saved.directories
    /\ op' = "register"
    /\ args' = ps
    /\ UNCHANGED << pc, filter, commands, repos, ws, remaining, visited, outcomes,
                    errors, first_repository, dividers, result, inspected, cause >>
    /\ UNCHANGED << envVars, directory, detailed, scanVars, stateVars >>

register == \E ps \in PathLists : register_paths(ps)

\* Multigit::unregister with the paths ps and the flag all; ans is what the
\* Confirm prompt comes to.
unregister_paths(ps, all, ans) ==
    /\ pc = "idle"
    /\ LET saved ==
               IF all
               THEN IF ans = "yes"
                    THEN [repositories |-> << >>, directories |-> << >>]
                    ELSE TheConfig
               ELSE IF ps = << >> THEN Config_unregister(TheConfig, Cwd)
               ELSE UnregisterEach(TheConfig, ps)
       IN  /\ repositories' = saved.repositories
           /\ directories' = saved.directories
    /\ op' = "unregister"
    /\ args' = ps
    /\ UNCHANGED << pc, filter, commands, repos, ws, remaining, visited, outcomes,
                    errors, first_repository, dividers, result, inspected, cause >>
    /\ UNCHANGED << envVars, directory, detailed, scanVars, stateVars >>

\* The prompt is shown only with all.
Answers(all) == IF all THEN {"yes", "no", "failed"} ELSE {"unasked"}

unregister ==
    \E ps \in PathLists, all \in BOOLEAN :
        \E ans \in Answers(all) : unregister_paths(ps, all, ans)

\* Between two commands a plain directory is made a checkout: it gets the
\* metadata entry is_git_repository looks for.
becomes_checkout ==
    /\ pc = "idle"
    /\ \E p \in Convertible :
          /\ IsDir(p) /\ ~is_git_repository(p)
          /\ fs' = [fs EXCEPT ![Join(p, DotGit)] = "dir"]
    /\ UNCHANGED << git2, configVars, runVars, adminVars, scanVars, stateVars >>

\* Between two commands a checkout loses its metadata entry.
becomes_plain ==
    /\ pc = "idle"
    /\ \E p \in Convertible :
          /\ is_git_repository(p)
          /\ fs' = [fs EXCEPT ![Join(p, DotGit)] = "absent"]
    /\ UNCHANGED << git2, configVars, runVars, adminVars, scanVars, stateVars >>

\* Three plain directories: /a, /a/a and /b.
TreePlain == TreeOf({ PathA, PathAA, PathB }, {})

\* The state after Config::load has found no configuration file.
InitRegistry ==
    /\ fs = TreePlain
    /\ git2 = [p \in RepoPaths |-> Corrupt]
    /\ repositories = << >>
    /\ directories = << >>
    /\ directory = None
    /\ RunIdle
    /\ StateIdle
    /\ ScanIdle

NextRegistry ==
    \/ register
    \/ unregister
    \/ becomes_checkout
    \/ becomes_plain

SpecRegistry == InitRegistry /\ [][NextRegistry]_vars

\* ------------------------------------------------------------------ claims

FanOutOps == {"status", "exec", "pull"} \cup GitCommands

Resolved == pc \in {"running", "done"}

FailureCount == Cardinality({i \in 1..Len(outcomes) : outcomes[i] = "Err"})

\* C1: a fan-out run invokes the operation on every checkout of the working
\* set exactly once, whatever checkouts fail: the checkouts taken so far and
\* the ones still to take always make up the working set, no run is cut
\* short after a checkout has failed, and a finished run has taken them all.
C1_EveryCheckoutAttempted ==
    op \in FanOutOps =>
        /\ Resolved => visited \o remaining = ws /\ Len(outcomes) = Len(visited)
        /\ pc = "panicked" => visited = << >>
        /\ pc = "done" => visited = ws

\* A finished run over three checkouts whose first and second failed.
C1_Witness ==
    /\ pc = "done"
    /\ Len(ws) = 3
    /\ visited = ws
    /\ outcomes = << "Err", "Err", "Ok" >>

\* C2: a fan-out run returns a failure iff some checkout's operation failed,
\* the failure carries the number of checkouts that failed, and a run without
\* failures (one over no checkout among them) returns success.
C2_FailureIffSomeFailed ==
    op \in FanOutOps /\ pc = "done" =>
        /\ result.kind \in {"Ok", "Err"}
        /\ result.kind = "Err" <=> FailureCount > 0
        /\ result.kind = "Err" => result.count = FailureCount

\* A finished run over three checkouts, two of them failed, returns Err(2).
C2_Witness ==
    /\ pc = "done"
    /\ Len(ws) = 3
    /\ FailureCount = 2
    /\ result = [kind |-> "Err", count |-> 2]

\* C3: what all_repositories returns is sorted by path with and without a
\* scope override, and the fan-out visits the checkouts in that order.
C3_SortedAndVisitedInOrder ==
    Resolved =>
        /\ IsSorted(repos)
        /\ IsSorted(ws)
        /\ IsSorted(visited)
        /\ visited = SubSeq(ws, 1, Len(visited))

\* A registered checkout /b and a registered container /a, whose candidates
\* are collected as /b, /a/a, /a/b, are visited as /a/a, /a/b, /b.
C3_Witness ==
    /\ pc = "done"
    /\ ~directory.some
    /\ DOMAIN repositories = {PathB}
    /\ DOMAIN directories = {PathA}
    /\ visited = << PathAA, PathAB, PathB >>

\* C4: what all_repositories returns holds no path twice.
C4_NoDuplicates == Resolved => NoDuplicates(repos)

\* C5: every path find_repositories returns is a checkout root.
C5_OnlyCheckoutRootsReported ==
    scanPc = "returned" => \A i \in 1..Len(scanOut.paths) : is_git_repository(scanOut.paths[i])

\* C6: find_repositories returns no path that lies strictly inside another
\* path it returns.
C6_NoNestedPaths ==
    scanPc = "returned" =>
        \A i, j \in 1..Len(scanOut.paths) : ~StrictlyUnder(scanOut.paths[i], scanOut.paths[j])

\* The hidden directories at or above p and below root.
HiddenAbove(p, root) ==
    {i \in (Len(root) + 1)..Len(p) : StartsWithDot(p[i])}

\* C7: no path at or under a hidden directory below the scan root is
\* returned by find_repositories.
C7_HiddenPruned ==
    scanPc = "returned" =>
        \A i \in 1..Len(scanOut.paths) :
            /\ StrictlyUnder(scanOut.paths[i], scanRoot)
            /\ HiddenAbove(scanOut.paths[i], scanRoot) = {}

\* A scan from / of a tree whose hidden directory /a/.h holds the checkout
\* /a/.h/b returns /a alone.
C7_Witness ==
    /\ scanPc = "returned"
    /\ scanRoot = Root
    /\ is_git_repository(PathAHB)
    /\ scanOut.paths = << PathA >>

\* C8: find_repositories on a root that is missing or no directory returns
\* an empty result.
C8_MissingRootScansEmpty ==
    scanPc # "start" /\ ~IsDir(scanRoot) => scanPc = "returned" /\ scanOut.paths = << >>

\* C9: find_repositories on a root that is a checkout root returns that root
\* and nothing else.
C9_RootCheckoutReported ==
    scanPc = "returned" /\ is_git_repository(scanRoot) => scanOut.paths = << scanRoot >>

\* C10: with a scope override, what all_repositories returns is
\* find_repositories(directory) whatever the registry holds.
C10_ScopeOverrideIsScan ==
    Resolved /\ directory.some =>
        LET scan == find_repositories(directory.value)
        IN  ~scan.panic /\ repos = scan.paths

\* With /b registered as a checkout and the scope override /a, what is
\* returned is the scan of /a: /a/a and /a/b.
C10_Witness ==
    /\ pc = "done"
    /\ directory = Some(PathA)
    /\ DOMAIN repositories = {PathB}
    /\ fs = TreeFlat
    /\ repos = << PathAA, PathAB >>

\* ---------------------------------------------- claims on filter and output

HasResolved == pc \in {"running", "listing", "done"}

\* all_repositories has returned and no checkout is taken yet; no step
\* changes repos, the registry or the tree from here on.
JustResolved == HasResolved /\ visited = << >>

EmptyFilter == ~filter.some \/ filter.value = << >>

FilterActive == filter.some /\ filter.value # << >>

Count(s, p) == Cardinality({i \in 1..Len(s) : s[i] = p})

Reported == FsPaths \cup {repos[i] : i \in 1..Len(repos)}

\* How often the registry and the tree make each path a candidate: once for
\* every registered checkout with that path and once for every place the
\* scan of a registered container reports it at; with a scope override,
\* once for every place the scan of the override reports it at.
CandidateCounts ==
    LET registered == IF directory.some THEN {} ELSE DOMAIN repositories
        containers == IF directory.some THEN {"override"} ELSE DOMAIN directories
        scans == [k \in containers |->
                     find_repositories(IF directory.some THEN directory.value
                                       ELSE directories[k]).paths]
        places == UNION {{<< k, i >> : i \in 1..Len(scans[k])} : k \in containers}
    IN  [p \in Reported |->
            Cardinality({k \in registered : repositories[k] = p})
            + Cardinality({x \in places : scans[x[1]][x[2]] = p})]

\* The State Inspector's answer makes p match one of the requested predicates.
Matches(p) ==
    \E i \in 1..Len(filter.value) :
        \/ filter.value[i] = "Dirty" /\ "Dirty" \in state(p).entries
        \/ filter.value[i] = "Tracking" /\ has_tracking_branch(p).value

\* C11: with no filter or an empty filter list all_repositories returns
\* every candidate, each as often as the registry and the scans supply it,
\* asks the State Inspector about no checkout, and never panics in the
\* filtering step, whatever state the checkouts are in.
C11_EmptyFilterKeepsAll ==
    EmptyFilter =>
        /\ inspected = {}
        /\ cause # "filter"
        /\ JustResolved =>
              LET candidates == CandidateCounts
              IN  \A p \in Reported : Count(repos, p) = candidates[p]

\* A command with an explicitly empty filter has resolved a working set of
\* two registered checkouts, one of which git2 cannot open.
C11_Witness ==
    /\ JustResolved
    /\ filter = Some(<< >>)
    /\ ~directory.some
    /\ Len(repos) = 2
    /\ \E i \in 1..Len(repos) : ~Open(repos[i])
    /\ \E i \in 1..Len(repos) : Open(repos[i])

\* C12: in registry mode with a non-empty filter, all_repositories having
\* returned (every inspection succeeded), the result holds exactly the
\* candidates that match at least one requested predicate, each as often as
\* it is a candidate, and nothing else, in path order.
C12_FilterIsUnionOfPredicates ==
    FilterActive /\ ~directory.some /\ JustResolved =>
        /\ LET candidates == CandidateCounts
           IN  \A p \in Reported :
                   Count(repos, p) = IF Matches(p) THEN candidates[p] ELSE 0
        /\ IsSorted(repos)

\* The container /a with a clean /a/a and a dirty /a/b, filter [Dirty]: the
\* result is /a/b alone.
C12_Witness ==
    /\ pc = "running" /\ visited = << >>
    /\ fs = TreeFlat
    /\ DOMAIN repositories = {} /\ DOMAIN directories = {PathA}
    /\ ~directory.some
    /\ git2[PathAA] = Clean /\ git2[PathAB] = DirtyWorktree
    /\ filter = Some(<< "Dirty" >>)
    /\ repos = << PathAB >>

\* C13: in registry mode with a non-empty filter a checkout the State
\* Inspector cannot answer for is dropped and the others are filtered as
\* usual: the filtering step never panics, and the result holds exactly the
\* candidates that can be inspected and match a requested predicate.
C13_InspectionFailureDrops ==
    FilterActive /\ ~directory.some /\ pc # "idle" =>
        /\ cause # "filter"
        /\ JustResolved =>
              LET candidates == CandidateCounts
              IN  \A p \in Reported :
                      Count(repos, p) = IF Open(p) /\ Matches(p) THEN candidates[p] ELSE 0

\* C14: pull hands git_command exactly the checkouts of the filtered working
\* set whose branch has a tracking branch; a checkout without one is not
\* visited, is in no error, and a run whose visits all succeed returns
\* success.
C14_PullVisitsTrackingOnly ==
    op = "pull" /\ Resolved =>
        /\ \A p \in Reported :
              Count(ws, p) = IF has_tracking_branch(p).value THEN Count(repos, p) ELSE 0
        /\ \A i \in 1..Len(visited) : has_tracking_branch(visited[i]).value
        /\ \A i \in 1..Len(errors) : has_tracking_branch(errors[i]).value
        /\ pc = "done" =>
              /\ visited = ws
              /\ result.count = FailureCount
              /\ (\A i \in 1..Len(outcomes) : outcomes[i] = "Ok") => result.kind = "Ok"

\* A finished pull over a working set with a checkout that has no tracking
\* branch: that checkout was not visited, another was, and the pull
\* succeeded.
C14_Witness ==
    /\ op = "pull" /\ pc = "done"
    /\ \E i \in 1..Len(repos) :
          /\ ~has_tracking_branch(repos[i]).value
          /\ Count(visited, repos[i]) = 0
    /\ Len(visited) >= 1
    /\ result.kind = "Ok"

\* C15: a git_command run prints no divider before the first checkout it
\* visits and exactly one before every later one, whatever the visits come
\* to: after k >= 1 visits k - 1 dividers are printed, and a finished run
\* over n >= 1 checkouts has printed n - 1.
C15_DividersBetweenCheckouts ==
    op \in GitCommands \cup {"pull"} /\ Resolved =>
        /\ visited = << >> => dividers = 0 /\ first_repository
        /\ visited # << >> => dividers + 1 = Len(visited) /\ ~first_repository
        /\ pc = "done" /\ ws # << >> => dividers + 1 = Len(ws)

\* A finished git command over three checkouts, the second of which failed:
\* one failure, a visit of the third, two dividers.
C15_Witness ==
    /\ op \in GitCommands /\ pc = "done"
    /\ Len(ws) = 3
    /\ outcomes = << "Ok", "Err", "Ok" >>
    /\ result = [kind |-> "Err", count |-> 1]
    /\ dividers = 2

\* What Multigit::register calls Config::register on.
Targets(ps) == IF ps = << >> THEN << Cwd >> ELSE ps

\* The registration of path enters it under its absolutized name in the map
\* its classification at that moment names, and enters it in the other map
\* under no name.
ClassifiedOnRegistration(path) ==
    IF is_git_repository(path)
    THEN /\ Absolutize(path) \in DOMAIN repositories'
         /\ Absolutize(path) \in DOMAIN directories' => Absolutize(path) \in DOMAIN directories
    ELSE /\ Absolutize(path) \in DOMAIN directories'
         /\ Absolutize(path) \in DOMAIN repositories' => Absolutize(path) \in DOMAIN repositories

\* C16: registering a path that is a checkout root at that moment puts it
\* in repositories and does not put it in directories; registering a path
\* without a metadata entry puts it in directories and does not put it in
\* repositories.  A step is a register command with the paths args' exactly
\* when it is a step of register_paths(args').
C16_RegisterClassifies ==
    [][op' = "register" /\ register_paths(args') =>
          \A i \in 1..Len(Targets(args')) : ClassifiedOnRegistration(Targets(args')[i])]_vars

\* The checkout /b and the plain directory /a registered by one command: /b
\* is in repositories only, /a in directories only.
C16_Witness ==
    /\ op = "register"
    /\ args = << PathB, PathA >>
    /\ is_git_repository(PathB) /\ ~is_git_repository(PathA)
    /\ PathB \in DOMAIN repositories /\ PathB \notin DOMAIN directories
    /\ PathA \in DOMAIN directories /\ PathA \notin DOMAIN repositories

\* C17: exec with an empty command list is rejected before any checkout is
\* touched: the State Inspector is asked about no checkout, the closure is
\* run on no checkout, and the call does not return success, whatever the
\* working set is.
C17_EmptyCommandRejected ==
    op = "exec" /\ commands = << >> =>
        /\ inspected = {}
        /\ visited = << >>
        /\ cause # "commands"
        /\ ~(pc = "done" /\ result.kind = "Ok")

\* C18: all_repositories returns the same sequence in whatever order the
\* two HashMaps are iterated: the sequence a command got is the one every
\* iteration order yields for the same registry, tree and filter, and a
\* resolution that panicked panics in every order.
C18_ResolutionIsDeterministic ==
    /\ JustResolved =>
          \A ro \in Orders(DOMAIN repositories), do \in Orders(DOMAIN directories) :
              all_repositories(filter, ro, do) = Returned(repos)
    /\ pc = "panicked" /\ cause \in {"scan", "filter"} =>
          \A ro \in Orders(DOMAIN repositories), do \in Orders(DOMAIN directories) :
              all_repositories(filter, ro, do).panic

\* A resolution over the registered checkouts /b and /a/a, which the map
\* hands out in either order: the command got /a/a, /b.
C18_Witness ==
    /\ JustResolved
    /\ ~directory.some
    /\ DOMAIN repositories = {PathAA, PathB}
    /\ repos = << PathAA, PathB >>

\* C19: list does not abort on a checkout the State Inspector cannot answer
\* for: making its row does not panic, and a finished list has shown every
\* checkout of the working set.
C19_ListShowsUninspectable ==
    op = "list" =>
        /\ ~(pc = "panicked" /\ cause = "row")
        /\ pc = "done" => visited = ws

\* C20: pull does not abort when has_tracking_branch fails for a checkout:
\* its filter does not panic, and a finished pull has visited every checkout
\* of the working set that has a tracking branch.
C20_PullSurvivesInspectionFailure ==
    op = "pull" =>
        /\ ~(pc = "panicked" /\ cause = "tracking")
        /\ pc = "done" =>
              \A i \in 1..Len(repos) :
                  has_tracking_branch(repos[i]).value => Count(visited, repos[i]) > 0

\* ------------------------------------- claims on scope override and registry

\* C21: with a scope override a non-empty filter is applied as it is in
\* registry mode: the working set holds exactly the checkouts the scan of
\* the override reports that match at least one requested predicate.
C21_ScopeOverrideIsFiltered ==
    FilterActive /\ directory.some /\ JustResolved =>
        LET candidates == CandidateCounts
        IN  \A p \in Reported :
                Count(repos, p) = IF Matches(p) THEN candidates[p] ELSE 0

\* C22: whatever register and unregister commands have run and however the
\* tree has changed between them, no absolutized path is a key of both
\* repositories and directories.
C22_ClassifiedExactlyOnce ==
    DOMAIN repositories \cap DOMAIN directories = {}

\* C24: an exec run over n >= 2 checkouts prints a divider between
\* consecutive checkouts as a git command does: none before the first
\* visit, one before every later one, n - 1 when the run has finished.
C24_ExecPrintsDividers ==
    op = "exec" /\ commands # << >> /\ Resolved /\ Len(ws) >= 2 =>
        /\ visited # << >> => dividers + 1 = Len(visited)
        /\ pc = "done" => dividers + 1 = Len(ws)

\* C23: the state of a checkout contains Dirty exactly when at least one of
\* its status entries carries an index, working-tree or conflict flag, one
\* flag or several at once, and is empty exactly when no entry carries any.
C23_DirtyIffAnyFlag ==
    statePc = "returned" =>
        LET flagged == \E entry \in git2[StatePath].statuses : entry \cap DirtyFlags # {}
        IN  /\ "Dirty" \in stateOut.entries <=> flagged
            /\ stateOut.entries = {} <=> ~flagged

====
